---- MODULE Spec2Model ----
(***************************************************************************)
(* A model of tests/sagefaker.py: the fake SageMaker client (four lists of *)
(* keyword dictionaries), its Paginator generator and its Waiter.          *)
(*                                                                         *)
(* Python objects are modelled with a heap: a keyword dictionary maps a    *)
(* field name to an immutable value <<"val", x>> or to a reference         *)
(* <<"ref", a>> to a mutable container whose content is heap[a].  A        *)
(* copy.deepcopy allocates fresh containers; storing a dictionary without  *)
(* copying keeps the caller's containers.                                  *)
(***************************************************************************)
EXTENDS Integers, Sequences, FiniteSets, TLC

VARIABLES aws_region,        \* SageFakerClient._aws_region
          training_jobs,     \* SageFakerClient._training_jobs
          models,            \* SageFakerClient._models
          endpoint_configs,  \* SageFakerClient._endpoint_configs
          endpoints,         \* SageFakerClient._endpoints
          heap,              \* the mutable containers that are alive
          args,              \* containers the caller passed to a successful create
          paginator,         \* the Paginator object the caller holds
          gens,              \* the generators returned by Paginator.paginate
          waiter,            \* the Waiter object the caller holds
          last,              \* the last call of the caller and its outcome
          created            \* history: <<create method, identity>> of the creates that returned

vars == <<aws_region, training_jobs, models, endpoint_configs, endpoints,
          heap, args, paginator, gens, waiter, last, created>>

store == <<training_jobs, models, endpoint_configs, endpoints>>

-----------------------------------------------------------------------------
(* Bounds of the model.                                                    *)

NumNames == 3       \* identity values 1..NumNames
MaxRecords == 3     \* records over the four lists
MaxArgRecords == 2  \* records over the four lists in the caller specification
MaxHandleRecords == 2  \* records over the four lists in the handle specification
MaxReadRecords == 2  \* records over the lists in the read specification
MaxJobs == 4        \* training jobs in the pagination specification
MaxRestartJobs == 3 \* training jobs in the restart specification
MaxPerPage == 3     \* page sizes 1..MaxPerPage in the pagination specification

Names == 1..NumNames
Regions == {"eu-west-1", "us-east-1"}
Contents == {<<>>, <<"k">>}    \* contents of a Tags list / HyperParameters mapping

-----------------------------------------------------------------------------
(* Values, the heap and copy.deepcopy.                                     *)

Atom(x) == <<"val", x>>
Ref(a) == <<"ref", a>>
New(c) == <<"new", c>>      \* an argument: a container the caller has just built
IsRef(v) == v[1] = "ref"
IsNew(v) == v[1] = "new"

None == [kind |-> "None", rec |-> <<>>]
Found(r) == [kind |-> "rec", rec |-> r]
Raised(e) == [kind |-> e, rec |-> <<>>]

Min(a, b) == IF a < b THEN a ELSE b

\* the references held by one keyword dictionary
RecRefs(r) == {r[f][2] : f \in {x \in DOMAIN r : IsRef(r[x])}}

\* the references held by a list of dictionaries
SeqRefs(s) == UNION {RecRefs(s[i]) : i \in 1..Len(s)}

\* the n-th smallest address that is not used by heap h
NthFree(h, n) ==
  CHOOSE a \in 1..(Cardinality(DOMAIN h) + n) :
    /\ a \notin DOMAIN h
    /\ Cardinality({b \in 1..a : b \notin DOMAIN h}) = n

Rank(S, x) == Cardinality({y \in S : y <= x})

\* the caller builds the containers of its keyword arguments
Bind(kwin, h) ==
  LET fs == {f \in DOMAIN kwin : IsNew(kwin[f])}
      ord == CHOOSE s \in [1..Cardinality(fs) -> fs] :
               \A i, j \in 1..Cardinality(fs) : i # j => s[i] # s[j]
      pos(f) == CHOOSE i \in 1..Cardinality(fs) : ord[i] = f
      adr == [f \in fs |-> NthFree(h, pos(f))]
      new == {adr[f] : f \in fs}
  IN [kw |-> [f \in DOMAIN kwin |-> IF f \in fs THEN Ref(adr[f]) ELSE kwin[f]],
      heap |-> [a \in DOMAIN h \cup new |->
                  IF a \in DOMAIN h THEN h[a]
                  ELSE kwin[CHOOSE f \in fs : adr[f] = a][2]]]

\* DeepCopySeq without the copy: the dictionaries themselves are handed out
ShallowCopySeq(s, h) == [val |-> s, heap |-> h]

\* copy.deepcopy of a list of dictionaries: every container is duplicated
DeepCopySeq(s, h) ==
  LET rs == SeqRefs(s)
      m == [a \in rs |-> NthFree(h, Rank(rs, a))]
      new == {m[a] : a \in rs}
  IN [val |-> [i \in 1..Len(s) |->
                 [f \in DOMAIN s[i] |->
                    IF IsRef(s[i][f]) THEN Ref(m[s[i][f][2]]) ELSE s[i][f]]],
      heap |-> [a \in DOMAIN h \cup new |->
                  IF a \in DOMAIN h THEN h[a]
                  ELSE h[CHOOSE b \in rs : m[b] = a]]]

\* copy.deepcopy of one dictionary
DeepCopy(r, h) ==
  LET c == DeepCopySeq(<<r>>, h) IN [val |-> c.val[1], heap |-> c.heap]

\* the value of a dictionary as == compares it: containers by content
Deep(r, h) ==
  [f \in DOMAIN r |-> IF IsRef(r[f]) THEN <<"obj", h[r[f][2]]>> ELSE r[f]]

DeepSeq(s, h) == [i \in 1..Len(s) |-> Deep(s[i], h)]

\* containers that nothing refers to any more are freed
Collect(h, roots) == [a \in DOMAIN h \cap roots |-> h[a]]

StoreRefs == SeqRefs(training_jobs) \cup SeqRefs(models)
             \cup SeqRefs(endpoint_configs) \cup SeqRefs(endpoints)

\* the heap when a call starts: the caller has dropped the last result
Kept == Collect(heap, StoreRefs \cup args)

-----------------------------------------------------------------------------
(* The keyword sets of the four create methods.                            *)

TrainingJobKws ==
  {"TrainingJobName", "AlgorithmSpecification", "EnableNetworkIsolation",
   "HyperParameters", "InputDataConfig", "OutputDataConfig", "ResourceConfig",
   "RoleArn", "StoppingCondition", "Tags"}

ModelKws ==
  {"ModelName", "PrimaryContainer", "ExecutionRoleArn", "Tags",
   "EnableNetworkIsolation"}

EndpointConfigKws == {"EndpointConfigName", "Tags", "ProductionVariants"}

EndpointKws == {"EndpointConfigName", "EndpointName", "Tags"}

Types == {"training_job", "model", "endpoint_config", "endpoint"}

ExpectedKws(t) ==
  CASE t = "training_job" -> TrainingJobKws
    [] t = "model" -> ModelKws
    [] t = "endpoint_config" -> EndpointConfigKws
    [] t = "endpoint" -> EndpointKws

IdField(t) ==
  CASE t = "training_job" -> "TrainingJobName"
    [] t = "model" -> "ModelName"
    [] t = "endpoint_config" -> "EndpointConfigName"
    [] t = "endpoint" -> "EndpointName"

Coll(t) ==
  CASE t = "training_job" -> training_jobs
    [] t = "model" -> models
    [] t = "endpoint_config" -> endpoint_configs
    [] t = "endpoint" -> endpoints

\* fields whose argument is a mutable container (a list or a dict)
MutableFields == {"Tags", "HyperParameters"}

\* a field that no create method expects
ExtraField(t) == IF t = "endpoint" THEN "EndpointArn" ELSE "VpcConfig"

\* the keyword sets a caller tries: the right one, one without the identity,
\* one without Tags, one with an extra keyword
FieldSets(t) ==
  {ExpectedKws(t), ExpectedKws(t) \ {IdField(t)}, ExpectedKws(t) \ {"Tags"},
   ExpectedKws(t) \cup {ExtraField(t)}}

\* one keyword dictionary of a create call: the identity n and the Tags
\* list c vary, a HyperParameters mapping starts empty, an endpoint names
\* the configuration 1, the rest is one fixed value
Kw(t, fs, n, c) ==
  [f \in fs |->
     IF f = "Tags" THEN New(c)
     ELSE IF f \in MutableFields THEN New(<<>>)
     ELSE IF f = IdField(t) THEN Atom(n)
     ELSE IF f = "EndpointConfigName" THEN Atom(1)
     ELSE Atom(0)]

\* the keyword arguments of the create calls: the right keyword set with
\* every value, a wrong keyword set with every identity
KwInputs(t, fieldsets, names, contents) ==
  {Kw(t, ExpectedKws(t), n, c) : n \in names, c \in contents}
  \cup {Kw(t, fs, n, <<>>) : fs \in fieldsets \ {ExpectedKws(t)}, n \in names}

-----------------------------------------------------------------------------
(* The lookups.                                                            *)

\* GetByName that compares each dictionary, not its name, with the name:
\* nothing is ever found
GetByNameNone(coll, field, name) == None

\* GetByName that looks at the first record only
GetByNameFirst(coll, field, name) ==
  IF coll # <<>> /\ coll[1][field] = name THEN Found(coll[1]) ELSE None

GetByName(coll, field, name) ==
  LET found == {i \in 1..Len(coll) : coll[i][field] = name} IN
  IF found = {} THEN None
  ELSE IF Cardinality(found) = 1 THEN Found(coll[CHOOSE i \in found : TRUE])
  ELSE Raised("RuntimeError")

get_training_job(name) == GetByName(training_jobs, "TrainingJobName", name)

\* get_model that compares the wrong field with the name
get_modelByRole(name) == GetByName(models, "ExecutionRoleArn", name)

get_model(name) == GetByName(models, "ModelName", name)

\* get_endpoint_config that looks among the models
get_endpoint_configInModels(name) == GetByName(models, "ModelName", name)

get_endpoint_config(name) ==
  GetByName(endpoint_configs, "EndpointConfigName", name)

get_endpoint(name) == GetByName(endpoints, "EndpointName", name)

-----------------------------------------------------------------------------
(* The outcome of a call.                                                  *)

\* op: the call; name: its paginator or waiter name; kws: its keyword set;
\* id: the identity value it names; exc, at: the exception and its source line;
\* kw: the keyword dictionary of a successful create; title, ret: the
\* dictionaries it returned (one, or the items of a page under its key)
NoCall == [op |-> "init", name |-> "", kws |-> {}, id |-> Atom(0),
           exc |-> "none", at |-> 0, kw |-> <<>>, title |-> "", ret |-> <<>>]

CreateOps ==
  {"create_training_job", "create_model", "create_endpoint_config",
   "create_endpoint"}

\* KwsOk that only asks for the expected keywords to be there
KwsOkSubset(kw, expected_kws) == expected_kws \subseteq DOMAIN kw

\* assert set(kw) == expected_kws
KwsOk(kw, expected_kws) == DOMAIN kw = expected_kws

IdOf(kw, field) == IF field \in DOMAIN kw THEN kw[field] ELSE Atom(0)

\* the call raises exc at source line at: nothing but its outcome changes
Raises(op, kws, id, exc, at) ==
  /\ last' = [NoCall EXCEPT !.op = op, !.kws = kws, !.id = id, !.exc = exc,
                            !.at = at]
  /\ heap' = Kept
  /\ UNCHANGED <<aws_region, store, args, paginator, gens, waiter, created>>

\* the call returns copy.deepcopy(r); h is the heap the call has built
Returns(op, kws, id, kw, r, h, newargs) ==
  LET c == DeepCopy(r, Collect(h, StoreRefs \cup args \cup newargs)) IN
  /\ last' = [NoCall EXCEPT !.op = op, !.kws = kws, !.id = id, !.kw = kw,
                            !.ret = <<c.val>>]
  /\ args' = args \cup newargs
  /\ created' = IF op \in CreateOps THEN created \cup {<<op, id>>} ELSE created
  /\ heap' = Collect(c.heap, StoreRefs' \cup args' \cup RecRefs(c.val))

-----------------------------------------------------------------------------
(* create_* and describe_*.                                                *)

create_training_job(kwin) ==
  LET b == Bind(kwin, Kept)
      kw == b.kw
      op == "create_training_job"
      id == IdOf(kw, "TrainingJobName")
  IN IF ~KwsOk(kw, TrainingJobKws)
     THEN Raises(op, DOMAIN kw, id, "AssertionError", 125)
     ELSE LET job == get_training_job(kw["TrainingJobName"]) IN
          IF job.kind = "RuntimeError"
          THEN Raises(op, DOMAIN kw, id, "RuntimeError", 107)
          ELSE IF job # None
          THEN Raises(op, DOMAIN kw, id, "AssertionError", 126)
          ELSE /\ training_jobs' = Append(training_jobs, kw)
               /\ UNCHANGED <<aws_region, models, endpoint_configs, endpoints,
                              paginator, gens, waiter>>
               /\ Returns(op, DOMAIN kw, id, kw, kw, b.heap, RecRefs(kw))

\* describe_training_job that takes the record out of the list
describe_training_jobTaking(TrainingJobName) ==
  LET training_job == get_training_job(TrainingJobName)
      op == "describe_training_job"
  IN /\ training_job.kind = "rec"
     /\ training_jobs' =
          SelectSeq(training_jobs, LAMBDA t : t["TrainingJobName"] # TrainingJobName)
     /\ UNCHANGED <<aws_region, models, endpoint_configs, endpoints,
                    paginator, gens, waiter>>
     /\ Returns(op, {}, TrainingJobName, <<>>, training_job.rec, heap, {})

describe_training_job(TrainingJobName) ==
  LET training_job == get_training_job(TrainingJobName)
      op == "describe_training_job"
  IN IF training_job.kind = "RuntimeError"
     THEN Raises(op, {}, TrainingJobName, "RuntimeError", 107)
     ELSE IF training_job = None
     THEN Raises(op, {}, TrainingJobName, "AssertionError", 132)
     ELSE /\ UNCHANGED <<aws_region, store, paginator, gens, waiter>>
          /\ Returns(op, {}, TrainingJobName, <<>>, training_job.rec, heap, {})

create_model(kwin) ==
  LET b == Bind(kwin, Kept)
      kw == b.kw
      op == "create_model"
      id == IdOf(kw, "ModelName")
  IN IF ~KwsOk(kw, ModelKws)
     THEN Raises(op, DOMAIN kw, id, "AssertionError", 154)
     ELSE LET model == get_model(kw["ModelName"]) IN
          IF model.kind = "RuntimeError"
          THEN Raises(op, DOMAIN kw, id, "RuntimeError", 141)
          ELSE IF model # None
          THEN Raises(op, DOMAIN kw, id, "AssertionError", 155)
          ELSE /\ models' = Append(models, kw)
               /\ UNCHANGED <<aws_region, training_jobs, endpoint_configs,
                              endpoints, paginator, gens, waiter>>
               /\ Returns(op, DOMAIN kw, id, kw, kw, b.heap, RecRefs(kw))

describe_model(ModelName) ==
  LET model == get_model(ModelName)
      op == "describe_model"
  IN IF model.kind = "RuntimeError"
     THEN Raises(op, {}, ModelName, "RuntimeError", 141)
     ELSE IF model = None
     THEN Raises(op, {}, ModelName, "AssertionError", 161)
     ELSE /\ UNCHANGED <<aws_region, store, paginator, gens, waiter>>
          /\ Returns(op, {}, ModelName, <<>>, model.rec, heap, {})

create_endpoint_config(kwin) ==
  LET b == Bind(kwin, Kept)
      kw == b.kw
      op == "create_endpoint_config"
      id == IdOf(kw, "EndpointConfigName")
  IN IF ~KwsOk(kw, EndpointConfigKws)
     THEN Raises(op, DOMAIN kw, id, "AssertionError", 181)
     ELSE LET config == get_endpoint_config(kw["EndpointConfigName"]) IN
          IF config.kind = "RuntimeError"
          THEN Raises(op, DOMAIN kw, id, "RuntimeError", 170)
          ELSE IF config # None
          THEN Raises(op, DOMAIN kw, id, "AssertionError", 182)
          ELSE /\ endpoint_configs' = Append(endpoint_configs, kw)
               /\ UNCHANGED <<aws_region, training_jobs, models, endpoints,
                              paginator, gens, waiter>>
               /\ Returns(op, DOMAIN kw, id, kw, kw, b.heap, RecRefs(kw))

describe_endpoint_config(EndpointConfigName) ==
  LET endpoint_cfg == get_endpoint_config(EndpointConfigName)
      op == "describe_endpoint_config"
  IN IF endpoint_cfg.kind = "RuntimeError"
     THEN Raises(op, {}, EndpointConfigName, "RuntimeError", 170)
     ELSE IF endpoint_cfg = None
     THEN Raises(op, {}, EndpointConfigName, "AssertionError", 188)
     ELSE /\ UNCHANGED <<aws_region, store, paginator, gens, waiter>>
          /\ Returns(op, {}, EndpointConfigName, <<>>, endpoint_cfg.rec, heap, {})

\* EndpointArn that formats one fixed region, not the client's
EndpointArnFixedRegion(region, name) ==
  Atom(<<"arn", "aws", "sagemaker", "eu-west-1", "12345", "endpoint/", name>>)

\* f"arn:aws:sagemaker:{self._aws_region}:12345:endpoint/{kw['EndpointName']}"
EndpointArn(region, name) ==
  Atom(<<"arn", "aws", "sagemaker", region, "12345", "endpoint/", name>>)

\* WithArn that leaves the dictionary as it came
WithArnUnset(kw, region) == kw

\* kw["EndpointArn"] = ...
WithArn(kw, region) ==
  [f \in DOMAIN kw \cup {"EndpointArn"} |->
     IF f = "EndpointArn" THEN EndpointArn(region, kw["EndpointName"][2])
     ELSE kw[f]]

\* create_endpoint that asks for the endpoint configuration to be there
create_endpointOfConfig(kwin) ==
  LET b == Bind(kwin, Kept)
      kw == b.kw
      op == "create_endpoint"
      id == IdOf(kw, "EndpointName")
  IN IF ~KwsOk(kw, EndpointKws)
     THEN Raises(op, DOMAIN kw, id, "AssertionError", 204)
     ELSE IF get_endpoint(kw["EndpointName"]) # None
     THEN Raises(op, DOMAIN kw, id, "AssertionError", 205)
     ELSE IF get_endpoint_config(kw["EndpointConfigName"]) = None
     THEN Raises(op, DOMAIN kw, id, "AssertionError", 206)
     ELSE /\ endpoints' = Append(endpoints, WithArn(kw, aws_region))
          /\ UNCHANGED <<aws_region, training_jobs, models,
                         endpoint_configs, paginator, gens, waiter>>
          /\ Returns(op, DOMAIN kw, id, kw, WithArn(kw, aws_region),
                     b.heap, RecRefs(kw))

create_endpoint(kwin) ==
  LET b == Bind(kwin, Kept)
      kw == b.kw
      op == "create_endpoint"
      id == IdOf(kw, "EndpointName")
  IN IF ~KwsOk(kw, EndpointKws)
     THEN Raises(op, DOMAIN kw, id, "AssertionError", 204)
     ELSE LET endpoint == get_endpoint(kw["EndpointName"]) IN
          IF endpoint.kind = "RuntimeError"
          THEN Raises(op, DOMAIN kw, id, "RuntimeError", 197)
          ELSE IF endpoint # None
          THEN Raises(op, DOMAIN kw, id, "AssertionError", 205)
          ELSE /\ endpoints' = Append(endpoints, WithArn(kw, aws_region))
               /\ UNCHANGED <<aws_region, training_jobs, models,
                              endpoint_configs, paginator, gens, waiter>>
               /\ Returns(op, DOMAIN kw, id, kw, WithArn(kw, aws_region),
                          b.heap, RecRefs(kw))

describe_endpoint(EndpointName) ==
  LET endpoint == get_endpoint(EndpointName)
      op == "describe_endpoint"
  IN IF endpoint.kind = "RuntimeError"
     THEN Raises(op, {}, EndpointName, "RuntimeError", 197)
     ELSE IF endpoint = None
     THEN Raises(op, {}, EndpointName, "AssertionError", 214)
     ELSE /\ UNCHANGED <<aws_region, store, paginator, gens, waiter>>
          /\ Returns(op, {}, EndpointName, <<>>, endpoint.rec, heap, {})

-----------------------------------------------------------------------------
(* Paginator.                                                              *)

PerPageDefault == 2

NoPaginator == [summary_title |-> "none", items |-> "none", per_page |-> 0]

\* Paginator.__init__: items is the list object itself, named by its type
Paginator(summary_title, items, per_page) ==
  [summary_title |-> summary_title, items |-> items, per_page |-> per_page]

list_training_jobs == Paginator("TrainingJobSummaries", "training_job", PerPageDefault)

\* list_models over the list of endpoints
list_modelsOverEndpoints == Paginator("Models", "endpoint", PerPageDefault)

list_models == Paginator("Models", "model", PerPageDefault)

list_endpoints == Paginator("Endpoints", "endpoint", PerPageDefault)

list_endpoint_configs == Paginator("EndpointConfigs", "endpoint_config", PerPageDefault)

PaginatorNames ==
  {"list_training_jobs", "list_models", "list_endpoints",
   "list_endpoint_configs", "list_notebook_instances"}

\* the other calls leave the handles alone and drop the last result
Handle(op, name, exc, at) ==
  /\ last' = [NoCall EXCEPT !.op = op, !.name = name, !.exc = exc, !.at = at]
  /\ heap' = Kept
  /\ UNCHANGED <<aws_region, store, args, created>>

get_paginator(name) ==
  IF name = "list_training_jobs"
  THEN /\ paginator' = list_training_jobs
       /\ Handle("get_paginator", name, "none", 0)
       /\ UNCHANGED <<gens, waiter>>
  ELSE IF name = "list_models"
  THEN /\ paginator' = list_models
       /\ Handle("get_paginator", name, "none", 0)
       /\ UNCHANGED <<gens, waiter>>
  ELSE IF name = "list_endpoints"
  THEN /\ paginator' = list_endpoints
       /\ Handle("get_paginator", name, "none", 0)
       /\ UNCHANGED <<gens, waiter>>
  ELSE IF name = "list_endpoint_configs"
  THEN /\ paginator' = list_endpoint_configs
       /\ Handle("get_paginator", name, "none", 0)
       /\ UNCHANGED <<gens, waiter>>
  ELSE /\ Handle("get_paginator", name, "NotImplementedError", 75)
       /\ UNCHANGED <<paginator, gens, waiter>>

\* Slice whose end is one short
SliceShort(items, start, end) == SubSeq(items, start + 1, Min(end - 1, Len(items)))

\* self._items[start:end]
Slice(items, start, end) == SubSeq(items, start + 1, Min(end, Len(items)))

\* calling paginate() makes a generator g; none of its body has run.
\* snap and out are history: the list as it was when the body started to
\* run (the first next()), and the pages handed out so far, both by value
paginate(g) ==
  /\ paginator # NoPaginator
  /\ gens' = [x \in DOMAIN gens \cup {g} |->
                IF x = g
                THEN [pc |-> "created", self |-> paginator, stop |-> 0, i |-> 0,
                      snap |-> <<>>, out |-> <<>>]
                ELSE gens[x]]
  /\ Handle("paginate", "", "none", 0)
  /\ UNCHANGED <<paginator, waiter>>

\* range(0, len(self._items), self._per_page) is evaluated by the first next()
RangeStop(gen) ==
  IF gen.pc = "created" THEN Len(Coll(gen.self.items)) ELSE gen.stop

\* RangeNext of one position kept for all generators: each goes on after
\* the furthest page handed out so far
RangeNextShared(gen) ==
  LET started == {h \in DOMAIN gens : gens[h].pc # "created"}
      furthest == CHOOSE h \in started : \A k \in started : gens[k].i <= gens[h].i
  IN IF started = {} THEN 0 ELSE gens[furthest].i + gen.self.per_page

RangeNext(gen) ==
  IF gen.pc = "created" THEN 0 ELSE gen.i + gen.self.per_page

\* next() on generator g: the loop body up to the next yield
next(g) ==
  /\ g \in DOMAIN gens
  /\ LET gen == gens[g]
         self == gen.self
         stop == RangeStop(gen)
         i == RangeNext(gen)
         snap == IF gen.pc = "created" THEN DeepSeq(Coll(self.items), heap)
                 ELSE gen.snap
     IN IF gen.pc = "done" \/ i >= stop
        THEN /\ gens' = [gens EXCEPT ![g].pc = "done", ![g].stop = stop,
                                     ![g].snap = snap]
             /\ Handle("next", "", "StopIteration", 26)
             /\ UNCHANGED <<paginator, waiter>>
        ELSE LET start == i
                 end == i + self.per_page
                 c == DeepCopySeq(Slice(Coll(self.items), start, end),
                                  Kept)
             IN /\ gens' = [gens EXCEPT ![g].pc = "suspended", ![g].stop = stop,
                                        ![g].i = i, ![g].snap = snap,
                                        ![g].out = Append(@, DeepSeq(c.val, c.heap))]
                /\ last' = [NoCall EXCEPT !.op = "next",
                                          !.title = self.summary_title,
                                          !.ret = c.val]
                /\ heap' = c.heap
                /\ UNCHANGED <<aws_region, store, args, paginator, waiter, created>>

-----------------------------------------------------------------------------
(* Waiter.                                                                 *)

NoWaiter == [selector_name |-> "none", selector |-> "none", made |-> 0]

\* Waiter.__init__; made is history: the number of training jobs at the time
Waiter(selector_name, selector) ==
  [selector_name |-> selector_name, selector |-> selector,
   made |-> Len(training_jobs)]

training_job_completed_or_stopped == Waiter("TrainingJobName", "_get_training_job")

WaiterNames == {"training_job_completed_or_stopped", "endpoint_in_service"}

get_waiter(name) ==
  IF name = "training_job_completed_or_stopped"
  THEN /\ waiter' = training_job_completed_or_stopped
       /\ Handle("get_waiter", name, "none", 0)
       /\ UNCHANGED <<paginator, gens>>
  ELSE /\ Handle("get_waiter", name, "NotImplementedError", 94)
       /\ UNCHANGED <<paginator, gens, waiter>>

\* Selector over the jobs that were there when the waiter was made
SelectorAtMake(w, value) ==
  GetByName(SubSeq(training_jobs, 1, w.made), "TrainingJobName", value)

\* self._selector(value): the bound method reads the client's list when called
Selector(w, value) == get_training_job(value)

\* the keyword arguments of a wait call
WaitInputs(names) ==
  {[k \in ks |-> IF k = "TrainingJobName" THEN Atom(n) ELSE Atom(0)] :
     ks \in {{"TrainingJobName", "WaiterConfig"}, {"TrainingJobName"},
             {"WaiterConfig"}, {"TrainingJobName", "WaiterConfig", "Delay"}},
     n \in names}

wait(kw) ==
  /\ waiter # NoWaiter
  /\ LET expected_kws == {waiter.selector_name, "WaiterConfig"}
         id == IdOf(kw, waiter.selector_name)
     IN IF ~KwsOk(kw, expected_kws)
        THEN Raises("wait", DOMAIN kw, id, "AssertionError", 52)
        ELSE LET found == Selector(waiter, kw[waiter.selector_name]) IN
             IF found.kind = "RuntimeError"
             THEN Raises("wait", DOMAIN kw, id, "RuntimeError", 107)
             ELSE IF found = None
             THEN Raises("wait", DOMAIN kw, id, "AssertionError", 53)
             ELSE /\ last' = [NoCall EXCEPT !.op = "wait", !.kws = DOMAIN kw,
                                            !.id = id]
                  /\ heap' = Kept
                  /\ UNCHANGED <<aws_region, store, args, paginator, gens, waiter, created>>

-----------------------------------------------------------------------------
(* The caller changes a container it holds.                                *)

\* a container that was passed as a keyword value of a successful create
MutateArg(a, c) ==
  /\ a \in args
  /\ c # heap[a]
  /\ heap' = Collect([heap EXCEPT ![a] = c], StoreRefs \cup args)
  /\ last' = [NoCall EXCEPT !.op = "mutate_arg"]
  /\ UNCHANGED <<aws_region, store, args, paginator, gens, waiter, created>>

\* a container of the value the last call returned
MutateRet(a, c) ==
  /\ a \in SeqRefs(last.ret)
  /\ c # heap[a]
  /\ heap' = [heap EXCEPT ![a] = c]
  /\ last' = [last EXCEPT !.op = "mutate_ret"]
  /\ UNCHANGED <<aws_region, store, args, paginator, gens, waiter, created>>

-----------------------------------------------------------------------------
(* The client specification: create and describe on the four lists, with   *)
(* right and wrong keyword sets.                                           *)

\* SageFakerClient.__init__(aws_region)
Construct(region) ==
  /\ aws_region = region
  /\ training_jobs = <<>>
  /\ models = <<>>
  /\ endpoint_configs = <<>>
  /\ endpoints = <<>>
  /\ heap = <<>>
  /\ args = {}
  /\ created = {}

\* the caller holds no paginator, generator or waiter and has made no call
NoHandles ==
  /\ paginator = NoPaginator
  /\ gens = <<>>
  /\ waiter = NoWaiter
  /\ last = NoCall

Init == NoHandles /\ Construct("eu-west-1")

\* the identity values a caller uses for list t: those in use, or the next
\* one (identities are only ever compared, so a caller that numbers its
\* records in the order it creates them stands for every caller)
NamesFor(t) == 1..Min(Len(Coll(t)) + 1, NumNames)

TotalRecords ==
  Len(training_jobs) + Len(models) + Len(endpoint_configs) + Len(endpoints)

\* a create call that the bound max on the number of records lets happen:
\* any call while there is room, and the calls that add nothing after that
Room(t, kwin, n, max) ==
  IF n < max \/ DOMAIN kwin # ExpectedKws(t) THEN TRUE
  ELSE \E i \in 1..Len(Coll(t)) : Coll(t)[i][IdField(t)] = kwin[IdField(t)]

Next ==
  \/ \E kwin \in KwInputs("training_job", FieldSets("training_job"), NamesFor("training_job"), {<<"k">>}) :
       Room("training_job", kwin, TotalRecords, MaxRecords) /\ create_training_job(kwin)
         /\ TotalRecords' <= MaxRecords
  \/ \E kwin \in KwInputs("model", FieldSets("model"), NamesFor("model"), {<<"k">>}) :
       Room("model", kwin, TotalRecords, MaxRecords) /\ create_model(kwin)
         /\ TotalRecords' <= MaxRecords
  \/ \E kwin \in KwInputs("endpoint_config", FieldSets("endpoint_config"), NamesFor("endpoint_config"), {<<"k">>}) :
       Room("endpoint_config", kwin, TotalRecords, MaxRecords) /\ create_endpoint_config(kwin)
         /\ TotalRecords' <= MaxRecords
  \/ \E kwin \in KwInputs("endpoint", FieldSets("endpoint"), NamesFor("endpoint"), {<<"k">>}) :
       Room("endpoint", kwin, TotalRecords, MaxRecords) /\ create_endpoint(kwin)
         /\ TotalRecords' <= MaxRecords
  \/ \E n \in NamesFor("training_job") : describe_training_job(Atom(n))
  \/ \E n \in NamesFor("model") : describe_model(Atom(n))
  \/ \E n \in NamesFor("endpoint_config") : describe_endpoint_config(Atom(n))
  \/ \E n \in NamesFor("endpoint") : describe_endpoint(Atom(n))

Spec == Init /\ [][Next]_vars

-----------------------------------------------------------------------------
(* The caller specification: create and describe on the four lists, and a  *)
(* caller that changes the containers it passed in.                        *)

InitArgs == NoHandles /\ \E region \in Regions : Construct(region)

NextArgs ==
  \/ \E kwin \in KwInputs("training_job", {TrainingJobKws}, NamesFor("training_job"), {<<>>}) :
       Room("training_job", kwin, TotalRecords, MaxArgRecords) /\ create_training_job(kwin)
         /\ TotalRecords' <= MaxArgRecords
  \/ \E kwin \in KwInputs("model", {ModelKws}, NamesFor("model"), {<<>>}) :
       Room("model", kwin, TotalRecords, MaxArgRecords) /\ create_model(kwin)
         /\ TotalRecords' <= MaxArgRecords
  \/ \E kwin \in KwInputs("endpoint_config", {EndpointConfigKws}, NamesFor("endpoint_config"), {<<>>}) :
       Room("endpoint_config", kwin, TotalRecords, MaxArgRecords) /\ create_endpoint_config(kwin)
         /\ TotalRecords' <= MaxArgRecords
  \/ \E kwin \in KwInputs("endpoint", {EndpointKws}, NamesFor("endpoint"), {<<>>}) :
       Room("endpoint", kwin, TotalRecords, MaxArgRecords) /\ create_endpoint(kwin)
         /\ TotalRecords' <= MaxArgRecords
  \/ \E n \in NamesFor("training_job") : describe_training_job(Atom(n))
  \/ \E n \in NamesFor("model") : describe_model(Atom(n))
  \/ \E n \in NamesFor("endpoint_config") : describe_endpoint_config(Atom(n))
  \/ \E n \in NamesFor("endpoint") : describe_endpoint(Atom(n))
  \/ \E a \in args, c \in Contents : MutateArg(a, c)

SpecArgs == InitArgs /\ [][NextArgs]_vars

-----------------------------------------------------------------------------
(* The waiter specification: training jobs and the waiter.                 *)

NextWait ==
  \/ \E kwin \in KwInputs("training_job", FieldSets("training_job"), NamesFor("training_job"), {<<"k">>}) :
       Room("training_job", kwin, Len(training_jobs), MaxRecords) /\ create_training_job(kwin)
         /\ Len(training_jobs') <= MaxRecords
  \/ \E name \in WaiterNames : get_waiter(name)
  \/ \E kw \in WaitInputs(NamesFor("training_job")) : wait(kw)

SpecWait == Init /\ [][NextWait]_vars

-----------------------------------------------------------------------------
(* The pagination specification: a Paginator of any page size over the     *)
(* list of training jobs, longer lists, and creates between the pages.     *)

\* the job names of a create: one in use, or the next one
JobNames == 1..Min(Len(training_jobs) + 1, MaxJobs)

InitPage ==
  /\ Construct("eu-west-1")
  /\ \E per_page \in 1..MaxPerPage :
       paginator = Paginator("TrainingJobSummaries", "training_job", per_page)
  /\ gens = <<>>
  /\ waiter = NoWaiter
  /\ last = NoCall

NextPage ==
  \/ \E kwin \in KwInputs("training_job", {TrainingJobKws}, JobNames, Contents) :
       create_training_job(kwin) /\ Len(training_jobs') <= MaxJobs
  \/ paginate(1)
  \/ next(1)

SpecPage == InitPage /\ [][NextPage]_vars

-----------------------------------------------------------------------------
(* The listing specification: the values the client hands out for training *)
(* jobs and endpoints (create, describe, pages), and a caller that changes *)
(* them.                                                                   *)

ListNames == {"list_training_jobs", "list_endpoints", "list_notebook_instances"}

NextList ==
  \/ \E kwin \in KwInputs("training_job", {TrainingJobKws}, NamesFor("training_job"), {<<>>}) :
       Room("training_job", kwin, TotalRecords, MaxRecords) /\ create_training_job(kwin)
         /\ TotalRecords' <= MaxRecords
  \/ \E kwin \in KwInputs("endpoint", {EndpointKws}, NamesFor("endpoint"), {<<>>}) :
       Room("endpoint", kwin, TotalRecords, MaxRecords) /\ create_endpoint(kwin)
         /\ TotalRecords' <= MaxRecords
  \/ \E n \in NamesFor("training_job") : describe_training_job(Atom(n))
  \/ \E n \in NamesFor("endpoint") : describe_endpoint(Atom(n))
  \/ \E name \in ListNames : get_paginator(name)
  \/ paginate(1)
  \/ next(1)
  \/ \E a \in SeqRefs(last.ret), c \in Contents : MutateRet(a, c)

SpecList == Init /\ [][NextList]_vars

-----------------------------------------------------------------------------
(* The endpoint specification: a client of either region, endpoints        *)
(* created with right and wrong keyword sets and described, and a caller   *)
(* that changes the containers it passed in.                               *)

NextArn ==
  \/ \E kwin \in KwInputs("endpoint", FieldSets("endpoint"), NamesFor("endpoint"), {<<>>}) :
       Room("endpoint", kwin, Len(endpoints), MaxRecords) /\ create_endpoint(kwin)
         /\ Len(endpoints') <= MaxRecords
  \/ \E n \in NamesFor("endpoint") : describe_endpoint(Atom(n))
  \/ \E a \in args, c \in Contents : MutateArg(a, c)

SpecArn == InitArgs /\ [][NextArn]_vars

-----------------------------------------------------------------------------
(* The handle specification: records of the four types, every paginator    *)
(* and waiter name, and the pages of the paginator.                        *)

NextHandles ==
  \/ \E kwin \in KwInputs("training_job", {TrainingJobKws}, NamesFor("training_job"), {<<>>}) :
       Room("training_job", kwin, TotalRecords, MaxHandleRecords) /\ create_training_job(kwin)
         /\ TotalRecords' <= MaxHandleRecords
  \/ \E kwin \in KwInputs("model", {ModelKws}, NamesFor("model"), {<<>>}) :
       Room("model", kwin, TotalRecords, MaxHandleRecords) /\ create_model(kwin)
         /\ TotalRecords' <= MaxHandleRecords
  \/ \E kwin \in KwInputs("endpoint_config", {EndpointConfigKws}, NamesFor("endpoint_config"), {<<>>}) :
       Room("endpoint_config", kwin, TotalRecords, MaxHandleRecords) /\ create_endpoint_config(kwin)
         /\ TotalRecords' <= MaxHandleRecords
  \/ \E kwin \in KwInputs("endpoint", {EndpointKws}, NamesFor("endpoint"), {<<>>}) :
       Room("endpoint", kwin, TotalRecords, MaxHandleRecords) /\ create_endpoint(kwin)
         /\ TotalRecords' <= MaxHandleRecords
  \/ \E name \in PaginatorNames : get_paginator(name)
  \/ paginate(1)
  \/ next(1)
  \/ \E name \in WaiterNames : get_waiter(name)

SpecHandles == Init /\ [][NextHandles]_vars

-----------------------------------------------------------------------------
(* The error specification: every failure of create, describe and wait on  *)
(* training jobs.                                                          *)

NextErrors ==
  \/ NextWait
  \/ \E n \in NamesFor("training_job") : describe_training_job(Atom(n))

SpecErrors == Init /\ [][NextErrors]_vars

-----------------------------------------------------------------------------
(* The restart specification: two generators of one Paginator over the     *)
(* list of training jobs, and creates between their pages.                 *)

\* the two generators that the caller holds
Generators == {1, 2}

NextRestart ==
  \/ \E kwin \in KwInputs("training_job", {TrainingJobKws}, JobNames, {<<>>}) :
       create_training_job(kwin) /\ Len(training_jobs') <= MaxRestartJobs
  \/ \E g \in Generators : paginate(g)
  \/ \E g \in Generators : next(g)

SpecRestart == InitPage /\ [][NextRestart]_vars

-----------------------------------------------------------------------------
(* The read specification: training jobs and endpoints, every kind of      *)
(* method of the client on them, the paginator's pages and the waiter's    *)
(* wait, with right and wrong arguments.                                   *)

\* the keyword sets a caller tries here: the right one, one with an extra
\* keyword
ExtraSets(t) == {ExpectedKws(t), ExpectedKws(t) \cup {ExtraField(t)}}

NextReads ==
  \/ \E kwin \in KwInputs("training_job", ExtraSets("training_job"), NamesFor("training_job"), {<<>>}) :
       Room("training_job", kwin, TotalRecords, MaxReadRecords) /\ create_training_job(kwin)
         /\ TotalRecords' <= MaxReadRecords
  \/ \E kwin \in KwInputs("endpoint", ExtraSets("endpoint"), NamesFor("endpoint"), {<<>>}) :
       Room("endpoint", kwin, TotalRecords, MaxReadRecords) /\ create_endpoint(kwin)
         /\ TotalRecords' <= MaxReadRecords
  \/ \E n \in NamesFor("training_job") : describe_training_job(Atom(n))
  \/ \E n \in NamesFor("endpoint") : describe_endpoint(Atom(n))
  \/ \E name \in ListNames : get_paginator(name)
  \/ paginate(1)
  \/ next(1)
  \/ \E name \in WaiterNames : get_waiter(name)
  \/ \E kw \in WaitInputs(NamesFor("training_job")) : wait(kw)

SpecReads == Init /\ [][NextReads]_vars

-----------------------------------------------------------------------------
(* What the callers of the client can observe.                             *)

DescribeOps ==
  {"describe_training_job", "describe_model", "describe_endpoint_config",
   "describe_endpoint"}

\* the list a create or describe method works on
TypeOf(op) ==
  CASE op \in {"create_training_job", "describe_training_job"} -> "training_job"
    [] op \in {"create_model", "describe_model"} -> "model"
    [] op \in {"create_endpoint_config", "describe_endpoint_config"} -> "endpoint_config"
    [] op \in {"create_endpoint", "describe_endpoint"} -> "endpoint"

CreateOf(t) == "create_" \o t

Get(t, name) ==
  CASE t = "training_job" -> get_training_job(name)
    [] t = "model" -> get_model(name)
    [] t = "endpoint_config" -> get_endpoint_config(name)
    [] t = "endpoint" -> get_endpoint(name)

\* what describe_<t>(name) returns in the current state, by value
DescribeValue(t, name) ==
  LET found == Get(t, name) IN
  IF found.kind = "rec" THEN <<"returns", Deep(found.rec, heap)>>
  ELSE IF found.kind = "None" THEN <<"AssertionError">>
  ELSE <<"RuntimeError">>

\* what the client returns in the current state for every identity and list
Observable ==
  [t \in Types |->
     [items |-> DeepSeq(Coll(t), heap),
      describe |-> [n \in Names |-> DescribeValue(t, Atom(n))]]]

\* the four lists by value
StoreValue == [t \in Types |-> DeepSeq(Coll(t), heap)]

\* a record with identity id is in the list of type t
Exists(t, id) ==
  \E i \in 1..Len(Coll(t)) : Coll(t)[i][IdField(t)] = id

\* the error kinds of the specification, as the code raises them
SchemaError(l) == l.exc = "AssertionError" /\ l.at \in {125, 154, 181, 204}

DuplicateResourceError(l) == l.exc = "AssertionError" /\ l.at \in {126, 155, 182, 205}

NotFoundError(l) == l.exc = "AssertionError" /\ l.at \in {132, 161, 188, 214}

ArgumentError(l) == l.exc = "AssertionError" /\ l.at = 52

TimeoutOrNotFoundError(l) == l.exc = "AssertionError" /\ l.at = 53

\* the condition under which a call failed
Condition(l) ==
  CASE SchemaError(l) -> "SchemaError"
    [] DuplicateResourceError(l) -> "DuplicateResourceError"
    [] NotFoundError(l) -> "NotFoundError"
    [] ArgumentError(l) -> "ArgumentError"
    [] TimeoutOrNotFoundError(l) -> "TimeoutOrNotFoundError"
    [] OTHER -> "other"

\* the error the caller catches: the class of the exception (an assert
\* without a message raises AssertionError with no arguments)
Caught(l) == l.exc

UnsupportedOperationError(l) == l.exc = "NotImplementedError" /\ l.at \in {75, 94}

\* what the next next() on a generator gives, by value
Pending(gen) ==
  IF gen.pc = "done" \/ RangeNext(gen) >= RangeStop(gen) THEN <<"StopIteration">>
  ELSE <<"page", DeepSeq(Slice(Coll(gen.self.items), RangeNext(gen),
                                RangeNext(gen) + gen.self.per_page), heap)>>

\* the title and the list of each paginator name that is supported
Listed ==
  [list_training_jobs |-> <<"TrainingJobSummaries", "training_job">>,
   list_models |-> <<"Models", "model">>,
   list_endpoints |-> <<"Endpoints", "endpoint">>,
   list_endpoint_configs |-> <<"EndpointConfigs", "endpoint_config">>]

TitleAndList(p) == <<p.summary_title, p.items>>

\* the pages of list s for page size p
PagesOf(s, p) ==
  [k \in 1..((Len(s) + p - 1) \div p) |->
     SubSeq(s, (k - 1) * p + 1, Min(k * p, Len(s)))]

RECURSIVE Concat(_)
Concat(pages) ==
  IF pages = <<>> THEN <<>> ELSE pages[1] \o Concat(Tail(pages))

-----------------------------------------------------------------------------
(* C1 *)

\* C1: in every reachable state each of the four lists holds at most one
\* record per identity value, and no lookup has raised the RuntimeError for
\* several records of one name.
C1_OneRecordPerIdentity ==
  /\ \A t \in Types : \A i, j \in 1..Len(Coll(t)) :
       Coll(t)[i][IdField(t)] = Coll(t)[j][IdField(t)] => i = j
  /\ last.exc # "RuntimeError"

\* a list of two records, and a create of a name in use was turned away
C1_Witness ==
  /\ Len(models) = 2
  /\ last.op = "create_model"
  /\ DuplicateResourceError(last)

-----------------------------------------------------------------------------
(* C2 *)

\* C2: when the caller changes a container it passed to a successful create,
\* nothing that describe or a list page returns changes.
C2_CallerCannotChangeStore ==
  [][last'.op = "mutate_arg" => Observable' = Observable]_vars

-----------------------------------------------------------------------------
(* C3 *)

\* C3: the pages a generator hands out are the pages of the list as it was
\* when the generator started: each page so far is the page of the snapshot
\* at that position, and a finished generator has handed out all of them.
C3_PagesOfSnapshot ==
  \A g \in DOMAIN gens :
    LET gen == gens[g]
        pages == PagesOf(gen.snap, gen.self.per_page)
    IN gen.pc # "created" =>
         /\ Len(gen.out) <= Len(pages)
         /\ \A k \in 1..Min(Len(gen.out), Len(pages)) : gen.out[k] = pages[k]
         /\ gen.pc = "done" => Len(gen.out) = Len(pages)

-----------------------------------------------------------------------------
(* C4 *)

\* C4 as stated: right after create(R) returns, describe of R's identity
\* returns a record with R's fields and R's values, for each of the four
\* types.
C4_RoundTripSameFields ==
  (last.op \in CreateOps /\ last.exc = "none") =>
    DescribeValue(TypeOf(last.op), last.id) = <<"returns", Deep(last.kw, heap)>>

\* C4 as amended: right after create(R) returns, describe of R's identity
\* returns R's fields with R's values; for a training job, a model and an
\* endpoint configuration these are all its fields, for an endpoint there is
\* one more, EndpointArn.
C4_RoundTrip ==
  (last.op \in CreateOps /\ last.exc = "none") =>
    LET d == DescribeValue(TypeOf(last.op), last.id)
        R == Deep(last.kw, heap)
    IN /\ d[1] = "returns"
       /\ DOMAIN d[2] =
            DOMAIN R \cup (IF last.op = "create_endpoint" THEN {"EndpointArn"} ELSE {})
       /\ \A f \in DOMAIN R : d[2][f] = R[f]

\* an endpoint with a non-empty Tags list was created as the second record
C4_Witness ==
  /\ last.op = "create_endpoint"
  /\ last.exc = "none"
  /\ Len(endpoints) = 2
  /\ heap[last.kw["Tags"][2]] = <<"k">>

-----------------------------------------------------------------------------
(* C5 *)

\* C5: a create with the right keyword set whose identity is already in the
\* list fails with the DuplicateResourceError and leaves every list as it
\* was, by reference and by value.
C5_DuplicateRejected ==
  [][(/\ last'.op \in CreateOps
      /\ last'.kws = ExpectedKws(TypeOf(last'.op))
      /\ Exists(TypeOf(last'.op), last'.id))
     => /\ DuplicateResourceError(last')
        /\ store' = store
        /\ StoreValue' = StoreValue]_vars

\* the second create of a training job name failed and the list has one record
C5_Witness ==
  /\ last.op = "create_training_job"
  /\ DuplicateResourceError(last)
  /\ Len(training_jobs) = 1
  /\ training_jobs[1]["TrainingJobName"] = last.id

-----------------------------------------------------------------------------
(* C6 *)

\* C6: a create whose keyword set is not the expected one fails with the
\* SchemaError, whether its identity is in the list or not, and leaves the
\* four lists as they were.
C6_SchemaRejected ==
  [][(/\ last'.op \in CreateOps
      /\ last'.kws # ExpectedKws(TypeOf(last'.op)))
     => /\ SchemaError(last')
        /\ store' = store
        /\ StoreValue' = StoreValue]_vars

\* a create with an extra keyword failed although its identity is in use
C6_Witness ==
  /\ last.op = "create_endpoint_config"
  /\ SchemaError(last)
  /\ last.kws = EndpointConfigKws \cup {"VpcConfig"}
  /\ Exists("endpoint_config", last.id)

-----------------------------------------------------------------------------
(* C7 *)

\* C7: describe of identity X fails with the NotFoundError when no create of
\* that type with identity X has returned before, and otherwise returns the
\* record of that identity.
C7_DescribeFindsCreated ==
  last.op \in DescribeOps =>
    LET t == TypeOf(last.op) IN
    IF <<CreateOf(t), last.id>> \in created
    THEN /\ last.exc = "none"
         /\ Len(last.ret) = 1
         /\ \E i \in 1..Len(Coll(t)) :
              /\ Coll(t)[i][IdField(t)] = last.id
              /\ Deep(last.ret[1], heap) = Deep(Coll(t)[i], heap)
    ELSE NotFoundError(last)

\* the second endpoint configuration of the list was described
C7_Witness ==
  /\ last.op = "describe_endpoint_config"
  /\ last.exc = "none"
  /\ Len(endpoint_configs) = 2
  /\ endpoint_configs[2]["EndpointConfigName"] = last.id

-----------------------------------------------------------------------------
(* C8 *)

\* C8: wait with the keywords TrainingJobName and WaiterConfig returns iff a
\* training job of that name is in the list when wait is called, and fails
\* with the TimeoutOrNotFoundError otherwise; wait with another keyword set
\* fails with the ArgumentError.
C8_WaitLooksUpAtCall ==
  last.op = "wait" =>
    IF last.kws = {"TrainingJobName", "WaiterConfig"}
    THEN IF Exists("training_job", last.id)
         THEN last.exc = "none"
         ELSE TimeoutOrNotFoundError(last)
    ELSE ArgumentError(last)

\* wait returned for a job that was created after the waiter was obtained
C8_Witness ==
  /\ last.op = "wait"
  /\ last.exc = "none"
  /\ waiter.made < Len(training_jobs)
  /\ training_jobs[Len(training_jobs)]["TrainingJobName"] = last.id

-----------------------------------------------------------------------------
(* C9 *)

\* C9: while no create has happened since a generator started over N records
\* with page size P, it has handed out at most ceil(N/P) pages, each of 1..P
\* items and each but the last of P, whose concatenation is the start of the
\* list; once it has finished, there are exactly ceil(N/P) pages and their
\* concatenation is the list.
C9_Pages ==
  \A g \in DOMAIN gens :
    LET gen == gens[g]
        P == gen.self.per_page
        N == Len(gen.snap)
        out == gen.out
        all == Concat(out)
    IN (gen.pc # "created" /\ DeepSeq(Coll(gen.self.items), heap) = gen.snap) =>
         /\ Len(out) <= (N + P - 1) \div P
         /\ \A k \in 1..Len(out) :
              /\ Len(out[k]) >= 1
              /\ Len(out[k]) <= P
              /\ k < Len(out) => Len(out[k]) = P
         /\ Len(all) <= N
         /\ all = SubSeq(gen.snap, 1, Len(all))
         /\ gen.pc = "done" => (Len(out) = (N + P - 1) \div P /\ all = gen.snap)

\* three jobs in pages of two: the finished generator gave sizes 2 and 1
C9_Witness ==
  /\ 1 \in DOMAIN gens
  /\ gens[1].pc = "done"
  /\ gens[1].self.per_page = 2
  /\ Len(training_jobs) = 3
  /\ Len(gens[1].snap) = 3
  /\ Len(gens[1].out) = 2
  /\ Len(gens[1].out[1]) = 2
  /\ Len(gens[1].out[2]) = 1

-----------------------------------------------------------------------------
(* C10 *)

\* C10: when the caller changes a container of a value that create, describe
\* or a page returned, nothing that describe or a list returns changes.
C10_ReturnedValuesAreCopies ==
  [][last'.op = "mutate_ret" => Observable' = Observable]_vars

\* the caller changed the Tags of the second item of a page of two
C10_Witness ==
  /\ last.op = "mutate_ret"
  /\ last.title = "TrainingJobSummaries"
  /\ Len(last.ret) = 2
  /\ Deep(last.ret[2], heap) # Deep(training_jobs[2], heap)

-----------------------------------------------------------------------------
(* C11 *)

\* C11: every endpoint in the list carries the EndpointArn
\* arn:aws:sagemaker:<region>:12345:endpoint/<EndpointName> of the client's
\* region and its own name; create_endpoint returns it and every
\* describe_endpoint returns it; a create_endpoint that is given EndpointArn
\* fails with the SchemaError.
C11_DerivedArn ==
  LET Arn(name) ==
        Atom(<<"arn", "aws", "sagemaker", aws_region, "12345", "endpoint/", name[2]>>)
  IN /\ \A i \in 1..Len(endpoints) :
          /\ "EndpointArn" \in DOMAIN endpoints[i]
          /\ endpoints[i]["EndpointArn"] = Arn(endpoints[i]["EndpointName"])
     /\ (last.op \in {"create_endpoint", "describe_endpoint"} /\ last.exc = "none") =>
          /\ Len(last.ret) = 1
          /\ "EndpointArn" \in DOMAIN last.ret[1]
          /\ last.ret[1]["EndpointArn"] = Arn(last.id)
     /\ (last.op = "create_endpoint" /\ "EndpointArn" \in last.kws) =>
          SchemaError(last)

\* a client of the other region: its second endpoint was described after the
\* caller changed the Tags list it had passed in
C11_Witness ==
  /\ aws_region = "us-east-1"
  /\ last.op = "describe_endpoint"
  /\ last.exc = "none"
  /\ Len(endpoints) = 2
  /\ last.id = endpoints[2]["EndpointName"]
  /\ heap[endpoints[2]["Tags"][2]] = <<"k">>

-----------------------------------------------------------------------------
(* C12 *)

\* C12: get_paginator of a name other than the four list names fails with
\* the UnsupportedOperationError; of each of the four names it returns a
\* paginator with the title of that name over the list of that name, and
\* every page of it is keyed by that title and holds records of that list
\* only. get_waiter of a name other than training_job_completed_or_stopped
\* fails with the same error. Neither call changes any of the four lists.
C12_Handles ==
  /\ [](/\ last.op = "get_paginator" =>
            IF last.name \in DOMAIN Listed
            THEN last.exc = "none" /\ TitleAndList(paginator) = Listed[last.name]
            ELSE UnsupportedOperationError(last)
        /\ paginator # NoPaginator =>
            \E n \in DOMAIN Listed : TitleAndList(paginator) = Listed[n]
        /\ \A g \in DOMAIN gens :
            \E n \in DOMAIN Listed : TitleAndList(gens[g].self) = Listed[n]
        /\ (last.op = "next" /\ last.exc = "none") =>
             /\ last.title = gens[1].self.summary_title
             /\ last.ret # <<>>
             /\ \A k \in 1..Len(last.ret) :
                  \E i \in 1..Len(Coll(gens[1].self.items)) :
                    Deep(last.ret[k], heap) = Deep(Coll(gens[1].self.items)[i], heap)
        /\ last.op = "get_waiter" =>
            IF last.name = "training_job_completed_or_stopped"
            THEN /\ last.exc = "none"
                 /\ waiter.selector_name = "TrainingJobName"
                 /\ waiter.selector = "_get_training_job"
            ELSE UnsupportedOperationError(last))
  /\ [][last'.op \in {"get_paginator", "get_waiter"} =>
         (store' = store /\ StoreValue' = StoreValue)]_vars

\* a page of one model, while the list of endpoints is not empty
C12_Witness ==
  /\ last.op = "next"
  /\ last.title = "Models"
  /\ Len(last.ret) = 1
  /\ Len(models) = 1
  /\ Len(endpoints) = 1

-----------------------------------------------------------------------------
(* C13 *)

\* C13: in every step each of the four lists keeps the records it has, at
\* their positions and with their values, and describe of every identity
\* that is in a list returns what it returned before the step.
C13_AppendOnly ==
  [][\A t \in Types :
       /\ Len(Coll(t)') >= Len(Coll(t))
       /\ SubSeq(StoreValue'[t], 1, Len(Coll(t))) = StoreValue[t]
       /\ \A n \in Names :
            Exists(t, Atom(n)) => DescribeValue(t, Atom(n))' = DescribeValue(t, Atom(n))]_vars

-----------------------------------------------------------------------------
(* C14 *)

\* C14: two calls that fail under different conditions of the five (wrong
\* field set on create, identity in use on create, describe of an absent
\* identity, wrong keyword set on wait, wait for an absent job) fail with
\* different errors.
C14_ErrorsDistinct ==
  [][(/\ Condition(last) # "other"
      /\ Condition(last') # "other"
      /\ Condition(last) # Condition(last'))
     => Caught(last) # Caught(last')]_vars

-----------------------------------------------------------------------------
(* C15 *)

\* C15: a create on one list, whether it returns or fails, leaves the three
\* other lists as they were, by reference and by value; and a create fails
\* with the DuplicateResourceError only when its identity is in its own
\* list, whatever identities the other lists hold.
C15_ListsIndependent ==
  [][last'.op \in CreateOps =>
       /\ \A t \in Types \ {TypeOf(last'.op)} :
            Coll(t)' = Coll(t) /\ StoreValue'[t] = StoreValue[t]
       /\ DuplicateResourceError(last') => Exists(TypeOf(last'.op), last'.id)
       /\ (/\ last'.kws = ExpectedKws(TypeOf(last'.op))
           /\ ~Exists(TypeOf(last'.op), last'.id)) => last'.exc = "none"]_vars

\* an endpoint configuration was created under an identity that a training
\* job and a model have
C15_Witness ==
  /\ last.op = "create_endpoint_config"
  /\ last.exc = "none"
  /\ Exists("training_job", last.id)
  /\ Exists("model", last.id)
  /\ Len(endpoint_configs) = 1

-----------------------------------------------------------------------------
(* C16 *)

\* C16: paginate makes a generator that has handed out nothing and whose
\* first page is the first page of the list; the first page a generator
\* hands out is the first page of the list as it was then; a paginate or a
\* next on one generator leaves every other generator and its next page as
\* they were; and two generators that started on the same list, unchanged
\* since, hand out the same pages as far as both have gone.
C16_Restartable ==
  /\ [](\A g \in DOMAIN gens :
          LET gen == gens[g]
              P == gen.self.per_page
              items == DeepSeq(Coll(gen.self.items), heap)
          IN /\ gen.pc = "created" =>
                  /\ gen.out = <<>>
                  /\ Pending(gen) = IF items = <<>> THEN <<"StopIteration">>
                                    ELSE <<"page", SubSeq(items, 1, Min(P, Len(items)))>>
             /\ gen.out # <<>> =>
                  gen.out[1] = SubSeq(gen.snap, 1, Min(P, Len(gen.snap)))
             /\ \A h \in DOMAIN gens :
                  (/\ gen.pc # "created" /\ gens[h].pc # "created"
                   /\ gen.snap = items /\ gens[h].snap = items) =>
                    \A k \in 1..Min(Len(gen.out), Len(gens[h].out)) :
                      gen.out[k] = gens[h].out[k])
  /\ [][last'.op \in {"paginate", "next"} =>
         \E g \in DOMAIN gens' :
           /\ last'.op = "paginate" => gens'[g].pc = "created"
           /\ \A h \in DOMAIN gens \ {g} :
                gens'[h] = gens[h] /\ Pending(gens[h])' = Pending(gens[h])]_vars

\* pages of one job: the first generator has given two pages, the second
\* generator one, the first page again
C16_Witness ==
  /\ DOMAIN gens = {1, 2}
  /\ Len(gens[1].out) = 2
  /\ Len(gens[2].out) = 1
  /\ gens[2].out[1] = gens[1].out[1]
  /\ gens[2].snap = gens[1].snap
  /\ last.op = "next"
  /\ last.exc = "none"
  /\ Len(last.ret) = Len(gens[2].out[1])
  /\ gens[1].self.per_page = 1

-----------------------------------------------------------------------------
(* C17 *)

\* C17: every call but a create that returns (describe, get_paginator,
\* paginate and the pages, get_waiter, wait, and every create that fails)
\* leaves the four lists as they were, by reference and by value; a create
\* that returns appends one record to the end of its list and leaves the
\* records that were there, and the other lists, as they were.
C17_ReadsLeaveStore ==
  [][IF last'.op \in CreateOps /\ last'.exc = "none"
     THEN \A t \in Types :
            IF t = TypeOf(last'.op)
            THEN /\ Len(Coll(t)') = Len(Coll(t)) + 1
                 /\ SubSeq(Coll(t)', 1, Len(Coll(t))) = Coll(t)
                 /\ SubSeq(StoreValue'[t], 1, Len(Coll(t))) = StoreValue[t]
                 /\ Coll(t)'[Len(Coll(t)) + 1][IdField(t)] = last'.id
            ELSE Coll(t)' = Coll(t) /\ StoreValue'[t] = StoreValue[t]
     ELSE store' = store /\ StoreValue' = StoreValue]_vars

\* wait returned for the second of two training jobs while a generator over
\* them was between its pages
C17_Witness ==
  /\ last.op = "wait"
  /\ last.exc = "none"
  /\ Len(training_jobs) = 2
  /\ last.id = training_jobs[2]["TrainingJobName"]
  /\ 1 \in DOMAIN gens
  /\ gens[1].pc = "suspended"
  /\ gens[1].self.items = "training_job"

-----------------------------------------------------------------------------
(* C18 *)

\* C18: a create returns exactly when its keyword set is the expected one
\* and its identity is not in its own list, whatever the other lists hold:
\* create_endpoint returns although no endpoint configuration of its
\* EndpointConfigName is there, and create_model and
\* create_endpoint_config ask for no training job or model.
C18_NoReferentialCheck ==
  [][last'.op \in CreateOps =>
       (last'.exc = "none" <=>
          /\ last'.kws = ExpectedKws(TypeOf(last'.op))
          /\ ~Exists(TypeOf(last'.op), last'.id))]_vars

\* an endpoint was created although no endpoint configuration has ever been,
\* after a model without a training job
C18_Witness ==
  /\ last.op = "create_endpoint"
  /\ last.exc = "none"
  /\ "EndpointConfigName" \in DOMAIN last.kw
  /\ ~Exists("endpoint_config", last.kw["EndpointConfigName"])
  /\ \A c \in created : c[1] \notin {"create_endpoint_config", "create_training_job"}
  /\ Len(models) = 1
  /\ Len(endpoints) = 2

====
